---- MODULE Spec2Model ----
(***************************************************************************)
(* Model of src/src/step.rs: the CustomIndex newtype over u32, its Idx     *)
(* implementation, its Add<usize> and From conversions, and its            *)
(* core::iter::Step implementation.                                        *)
(*                                                                         *)
(* The values of the program (u32 up to 2^32-1, usize up to 2^64-1, and    *)
(* the mathematical sum of two of them) do not fit the integers of the     *)
(* model checker, so a number is a tuple of five base-2^16 digits, least   *)
(* significant first.  The program's constants keep their real values.     *)
(***************************************************************************)
EXTENDS Integers, Sequences, FiniteSets, TLC

VARIABLES
    target_pointer_width,   \* width of usize on the build's target: 32 or 64
    overflow_checks,        \* build profile: does `+` panic on overflow (debug) or wrap (release)
    i,                      \* the caller's CustomIndex binding (`let mut i: CustomIndex`)
    call,                   \* the last call made: operation, receiver, argument, outcome
    ncalls                  \* number of calls made so far

vars == <<target_pointer_width, overflow_checks, i, call, ncalls>>

(***************************************************************************)
(* Bounds of the model.                                                    *)
(***************************************************************************)
\* inputs are drawn within Near of each boundary value of the integer types
Near == 1
\* length of the sequences of calls explored
MaxCalls == 2

(***************************************************************************)
(* Multi-digit naturals.                                                   *)
(***************************************************************************)
Base == 256 * 256

Small(k) == <<k, 0, 0, 0, 0>>

\* a 32-bit literal 0xHHHH_LLLL
Hex32(hi, lo) == <<lo, hi, 0, 0, 0>>

\* a 64-bit literal 0xAAAA_BBBB_CCCC_DDDD
Hex64(a, b, c, d) == <<d, c, b, a, 0>>

\* the carry out of digit k of x + y, given the carry into it
Carry(x, y, k, c) == (x[k] + y[k] + c) \div Base

\* the mathematical sum x + y (no wrap: two 64-bit values sum below 2^80)
NatAdd(x, y) ==
    LET c1 == Carry(x, y, 1, 0)
        c2 == Carry(x, y, 2, c1)
        c3 == Carry(x, y, 3, c2)
        c4 == Carry(x, y, 4, c3)
    IN  << (x[1] + y[1]) % Base,
           (x[2] + y[2] + c1) % Base,
           (x[3] + y[3] + c2) % Base,
           (x[4] + y[4] + c3) % Base,
           (x[5] + y[5] + c4) % Base >>

\* the borrow out of digit k of x - y, given the borrow into it
Borrow(x, y, k, b) == IF x[k] - y[k] - b < 0 THEN 1 ELSE 0

\* the difference x - y, for y <= x
NatSub(x, y) ==
    LET b1 == Borrow(x, y, 1, 0)
        b2 == Borrow(x, y, 2, b1)
        b3 == Borrow(x, y, 3, b2)
        b4 == Borrow(x, y, 4, b3)
    IN  << (x[1] - y[1]) % Base,
           (x[2] - y[2] - b1) % Base,
           (x[3] - y[3] - b2) % Base,
           (x[4] - y[4] - b3) % Base,
           (x[5] - y[5] - b4) % Base >>

\* x < y: compare from the most significant digit down
NatLt(x, y) ==
    IF x[5] # y[5] THEN x[5] < y[5]
    ELSE IF x[4] # y[4] THEN x[4] < y[4]
    ELSE IF x[3] # y[3] THEN x[3] < y[3]
    ELSE IF x[2] # y[2] THEN x[2] < y[2]
    ELSE x[1] < y[1]

NatLe(x, y) == ~ NatLt(y, x)

\* the low `bits` bits of x: what an `as` cast to a narrower type, or a
\* wrapping operation of that width, keeps
Truncate(x, bits) ==
    LET keep(k) == IF k <= bits \div 16 THEN x[k] ELSE 0
    IN  << keep(1), keep(2), keep(3), keep(4), keep(5) >>

(***************************************************************************)
(* Integer types and constants.                                            *)
(***************************************************************************)
u16_MAX == Hex32(0, \hFFFF)

u32_MAX == Hex32(\hFFFF, \hFFFF)

usize_MAX ==
    IF target_pointer_width = 32 THEN u32_MAX
    ELSE Hex64(\hFFFF, \hFFFF, \hFFFF, \hFFFF)

\* const MAX: u32 = 0xFFFF_FF00
MAX == Hex32(\hFFFF, \hFF00)

\* an `as u16` in place of the `as u32`
as_u16_cast(v) == Truncate(v, 16)

\* `v as u32`
as_u32_cast(v) == Truncate(v, 32)

\* `v as usize`
as_usize_cast(v) == Truncate(v, target_pointer_width)

(***************************************************************************)
(* Outcomes of a call: a returned value, a panic, or an Option.            *)
(***************************************************************************)
Ok(v) == [kind |-> "ok", val |-> v]

Panic == [kind |-> "panic"]

Some(v) == [kind |-> "some", val |-> v]

None == [kind |-> "none"]

(***************************************************************************)
(* Integer operations of the language used by the program.                 *)
(***************************************************************************)
\* `a + b` on usize: panics on overflow when the build has overflow checks,
\* wraps around otherwise
usize_add(a, b) ==
    LET sum == NatAdd(a, b)
    IN  IF NatLe(sum, usize_MAX) THEN Ok(sum)
        ELSE IF overflow_checks THEN Panic
        ELSE Ok(Truncate(sum, target_pointer_width))

\* usize::checked_add
checked_add(a, b) ==
    LET sum == NatAdd(a, b)
    IN  IF NatLe(sum, usize_MAX) THEN Some(sum) ELSE None

\* usize::checked_sub
checked_sub(a, b) == IF NatLe(b, a) THEN Some(NatSub(a, b)) ELSE None

\* <usize as Step>::steps_between
usize_steps_between(start, end) ==
    IF NatLe(start, end)
    THEN LET steps == NatSub(end, start) IN <<steps, Some(steps)>>
    ELSE <<Small(0), None>>

(***************************************************************************)
(* struct CustomIndex and its inherent methods.                            *)
(***************************************************************************)
CustomIndex(v) == [private_use_as_methods_instead |-> v]

from_u32_unchecked(value) == CustomIndex(value)

\* from_usize checking against the whole of u32 instead of MAX
from_usize_full_range(value) ==
    IF ~ NatLe(value, as_usize_cast(u32_MAX)) THEN Panic
    ELSE Ok(from_u32_unchecked(as_u32_cast(value)))

\* from_usize without its assertion
from_usize_unasserted(value) == Ok(from_u32_unchecked(as_u32_cast(value)))

from_usize(value) ==
    IF ~ NatLe(value, as_usize_cast(MAX)) THEN Panic
    ELSE Ok(from_u32_unchecked(as_u32_cast(value)))

from_u32(value) ==
    IF ~ NatLe(value, MAX) THEN Panic
    ELSE Ok(from_u32_unchecked(value))

from_u16(value) ==
    LET value32 == as_u32_cast(value)
    IN  IF ~ NatLe(value32, MAX) THEN Panic
        ELSE Ok(from_u32_unchecked(value32))

MAX_AS_U32 == MAX

CustomIndex_MAX == from_u32(MAX).val

ZERO == from_u32(Small(0)).val

as_u32(self) == self.private_use_as_methods_instead

as_usize(self) == as_usize_cast(as_u32(self))

index(self) == as_usize(self)

(***************************************************************************)
(* impl Add<usize>, impl Idx, trait Idx, impl From.                        *)
(***************************************************************************)
add(self, other) ==
    LET sum == usize_add(index(self), other)
    IN  IF sum.kind = "panic" THEN Panic ELSE from_usize(sum.val)

new(idx) == from_usize(idx)

Idx_index(self) == as_usize(self)

plus(self, amount) ==
    LET sum == usize_add(Idx_index(self), amount)
    IN  IF sum.kind = "panic" THEN Panic ELSE new(sum.val)

\* the value `*self` holds after increment_by, or the panic that left it alone
increment_by(self, amount) == plus(self, amount)

u32_from(v) == as_u32(v)

usize_from(v) == as_usize(v)

CustomIndex_from_usize(value) == from_usize(value)

CustomIndex_from_u32(value) == from_u32(value)

(***************************************************************************)
(* impl Step for CustomIndex.                                              *)
(***************************************************************************)
\* Option::map with a function that may panic
MapFromUsize(opt) ==
    IF opt.kind = "none" THEN None
    ELSE LET r == from_usize(opt.val)
         IN  IF r.kind = "panic" THEN Panic ELSE Some(r.val)

\* steps_between with its arguments exchanged
steps_between_swapped(start, end) == usize_steps_between(index(end), index(start))

steps_between(start, end) == usize_steps_between(index(start), index(end))

\* forward_checked adding with wrapping_add
forward_checked_wrapping(start, u) ==
    MapFromUsize(Some(Truncate(NatAdd(index(start), u), target_pointer_width)))

\* forward_checked clamping at MAX instead of reporting
forward_checked_saturating(start, u) ==
    LET sum == NatAdd(index(start), u)
    IN  Some(from_u32_unchecked(IF NatLe(sum, MAX) THEN sum ELSE MAX))

forward_checked(start, u) == MapFromUsize(checked_add(index(start), u))

\* backward_checked subtracting with wrapping_sub
backward_checked_wrapping(start, u) ==
    MapFromUsize(Some(Truncate(NatSub(index(start), u), target_pointer_width)))

backward_checked(start, u) == MapFromUsize(checked_sub(index(start), u))

\* Option::expect
Expect(opt) == IF opt.kind = "some" THEN Ok(opt.val) ELSE Panic

\* Step::forward and Step::backward, the provided methods the tests call
forward(start, count) == Expect(forward_checked(start, count))

backward(start, count) == Expect(backward_checked(start, count))

(***************************************************************************)
(* Inputs: the values within Near of a boundary of the integer types or of *)
(* MAX.                                                                    *)
(***************************************************************************)
Anchors ==
    { Small(0), u16_MAX, MAX, u32_MAX,
      Hex64(\hFFFF, \hFFFF, \hFFFF, \hFFFF) }

Around(p) ==
    { NatAdd(p, Small(k)) : k \in 0 .. Near }
        \cup { NatSub(p, Small(k)) : k \in { j \in 0 .. Near : NatLe(Small(j), p) } }

Values == UNION { Around(p) : p \in Anchors }

usize_values == { v \in Values : NatLe(v, usize_MAX) }

u32_values == { v \in Values : NatLe(v, u32_MAX) }

u16_values == { v \in Values : NatLe(v, u16_MAX) }

\* the indices a caller can hold besides `i`
index_values == { CustomIndex(v) : v \in { w \in Values : NatLe(w, MAX) } }

(***************************************************************************)
(* The caller.  A call that panics unwinds and leaves `i` as it was.       *)
(***************************************************************************)
Call(op, self, arg, end, out) ==
    /\ ncalls < MaxCalls
    /\ ncalls' = ncalls + 1
    /\ call' = [op |-> op, self |-> self, arg |-> arg, end |-> end, out |-> out]
    /\ UNCHANGED <<target_pointer_width, overflow_checks>>

\* `i = <call>;` : the binding takes the value the call returned, if it returned one
Assign ==
    i' = IF call'.out.kind \in {"ok", "some"} THEN call'.out.val ELSE i

\* the indices the tests start from: CustomIndex::new(0), new(1), new(100)
TestIndices == { new(Small(0)).val, new(Small(1)).val, new(Small(100)).val }

Init ==
    /\ target_pointer_width \in {32, 64}
    /\ overflow_checks \in BOOLEAN
    /\ i \in TestIndices \cup {ZERO, CustomIndex_MAX}
    /\ call = [op |-> "none", self |-> i, arg |-> Small(0), end |-> i, out |-> Ok(i)]
    /\ ncalls = 0

FromUsize ==
    \E value \in usize_values :
        /\ Call("from_usize", i, value, i, from_usize(value))
        /\ Assign

FromU32 ==
    \E value \in u32_values :
        /\ Call("from_u32", i, value, i, from_u32(value))
        /\ Assign

FromU16 ==
    \E value \in u16_values :
        /\ Call("from_u16", i, value, i, from_u16(value))
        /\ Assign

\* the unsafe constructor, called as its safety contract requires
FromU32Unchecked ==
    \E value \in { v \in u32_values : NatLe(v, MAX) } :
        /\ Call("from_u32_unchecked", i, value, i, Ok(from_u32_unchecked(value)))
        /\ Assign

IdxNew ==
    \E idx \in usize_values :
        /\ Call("new", i, idx, i, new(idx))
        /\ Assign

CustomIndexFromUsize ==
    \E value \in usize_values :
        /\ Call("From<usize>", i, value, i, CustomIndex_from_usize(value))
        /\ Assign

CustomIndexFromU32 ==
    \E value \in u32_values :
        /\ Call("From<u32>", i, value, i, CustomIndex_from_u32(value))
        /\ Assign

Index ==
    /\ Call("index", i, Small(0), i, Ok(index(i)))
    /\ UNCHANGED i

AsU32 ==
    /\ Call("as_u32", i, Small(0), i, Ok(as_u32(i)))
    /\ UNCHANGED i

AsUsize ==
    /\ Call("as_usize", i, Small(0), i, Ok(as_usize(i)))
    /\ UNCHANGED i

IdxIndex ==
    /\ Call("Idx::index", i, Small(0), i, Ok(Idx_index(i)))
    /\ UNCHANGED i

U32From ==
    /\ Call("u32::from", i, Small(0), i, Ok(u32_from(i)))
    /\ UNCHANGED i

UsizeFrom ==
    /\ Call("usize::from", i, Small(0), i, Ok(usize_from(i)))
    /\ UNCHANGED i

\* `i = i + other;`
Add ==
    \E other \in usize_values :
        /\ Call("add", i, other, i, add(i, other))
        /\ Assign

\* `let _ = i.plus(amount);` : plus takes a copy of i
Plus ==
    \E amount \in usize_values :
        /\ Call("plus", i, amount, i, plus(i, amount))
        /\ UNCHANGED i

\* `i.increment_by(amount);`
IncrementBy ==
    \E amount \in usize_values :
        /\ Call("increment_by", i, amount, i, increment_by(i, amount))
        /\ Assign

StepsBetween ==
    \E end \in index_values :
        /\ Call("steps_between", i, Small(0), end, Ok(steps_between(i, end)))
        /\ UNCHANGED i

\* `if let Some(j) = Step::forward_checked(i, u) { i = j }`
ForwardChecked ==
    \E u \in usize_values :
        /\ Call("forward_checked", i, u, i, forward_checked(i, u))
        /\ Assign

BackwardChecked ==
    \E u \in usize_values :
        /\ Call("backward_checked", i, u, i, backward_checked(i, u))
        /\ Assign

Next ==
    \/ FromUsize
    \/ FromU32
    \/ FromU16
    \/ FromU32Unchecked
    \/ IdxNew
    \/ CustomIndexFromUsize
    \/ CustomIndexFromU32
    \/ Index
    \/ AsU32
    \/ AsUsize
    \/ IdxIndex
    \/ U32From
    \/ UsizeFrom
    \/ Add
    \/ Plus
    \/ IncrementBy
    \/ StepsBetween
    \/ ForwardChecked
    \/ BackwardChecked

Spec == Init /\ [][Next]_vars

(***************************************************************************)
(* Properties.                                                             *)
(***************************************************************************)

\* C1: forward_checked(s, n) returns None, and does not panic, whenever
\* s.index() + n overflows usize or exceeds MAX.
C1_ForwardCheckedAbsentOnOverflow ==
    call.op = "forward_checked" =>
        LET sum == NatAdd(index(call.self), call.arg)
        IN  NatLt(MAX, sum) => call.out = None

\* C2: after any sequence of the safe operations, the index the caller holds
\* and every index a call returned store a value v with 0 <= v <= MAX.
C2_RangeInvariant ==
    /\ NatLe(as_u32(i), MAX)
    /\ NatLe(as_u32(call.self), MAX)
    /\ ( /\ call.op \in { "from_usize", "from_u32", "from_u16", "from_u32_unchecked",
                          "new", "From<usize>", "From<u32>", "add", "plus",
                          "increment_by", "forward_checked", "backward_checked" }
         /\ call.out.kind \in {"ok", "some"} )
       => NatLe(as_u32(call.out.val), MAX)

\* a second call whose addition reached exactly MAX from another index
C2_Witness ==
    /\ ncalls = 2
    /\ call.op = "add"
    /\ call.self # CustomIndex_MAX
    /\ i = CustomIndex_MAX

\* C3: i.add(n) panics whenever i.index() + n exceeds MAX, also when the sum
\* does not fit usize, and otherwise returns the index of value i.index() + n.
C3_AddPanicsAboveMax ==
    call.op = "add" =>
        LET sum == NatAdd(index(call.self), call.arg)
        IN  IF NatLe(sum, MAX) THEN call.out = Ok(CustomIndex(sum))
            ELSE call.out = Panic

\* C4: from_usize, from_u32, From<usize>, From<u32> and Idx::new panic for
\* every input above MAX and return the index of that value for every input
\* up to MAX.
C4_ValidatingConstructors ==
    call.op \in {"from_usize", "from_u32", "From<usize>", "From<u32>", "new"} =>
        IF NatLe(call.arg, MAX) THEN call.out = Ok(CustomIndex(call.arg))
        ELSE call.out = Panic

\* from_u32(0xFFFF_FF01) is rejected
C4_Witness ==
    /\ call.op = "from_u32"
    /\ call.arg = Hex32(\hFFFF, \hFF01)
    /\ call.out = Panic

\* C5: backward_checked(s, n) is Some(Index(s.index() - n)) when
\* n <= s.index() and None when n > s.index(); it never panics or wraps.
C5_BackwardChecked ==
    call.op = "backward_checked" =>
        IF NatLe(call.arg, index(call.self))
        THEN call.out = Some(CustomIndex(NatSub(index(call.self), call.arg)))
        ELSE call.out = None

\* backward_checked(Index(100), 1) is Some(Index(99))
C5_Witness ==
    /\ call.op = "backward_checked"
    /\ call.self = CustomIndex(Small(100))
    /\ call.arg = Small(1)
    /\ call.out = Some(CustomIndex(Small(99)))

\* C6: forward_checked(s, n) is Some(Index(s.index() + n)) whenever the sum
\* is at most MAX, a Some it returns always holds the unwrapped sum, and
\* forward(s, n) returns that index in range and panics otherwise.
C6_ForwardNeverWraps ==
    call.op = "forward_checked" =>
        LET sum == NatAdd(index(call.self), call.arg)
        IN  /\ NatLe(sum, MAX) => call.out = Some(CustomIndex(sum))
            /\ call.out.kind = "some" => index(call.out.val) = sum
            /\ forward(call.self, call.arg) =
                   IF NatLe(sum, MAX) THEN Ok(CustomIndex(sum)) ELSE Panic

\* forward_checked(Index(1), usize::MAX), whose wrapped sum would be 0,
\* returned no index
C6_Witness ==
    /\ call.op = "forward_checked"
    /\ call.self = CustomIndex(Small(1))
    /\ call.arg = usize_MAX
    /\ call.out.kind # "some"

\* C7: for v <= MAX, from_u32(v).as_u32(), from_usize(v).as_usize() and
\* Idx::new(v).index() are v, and index(), as_usize() and as_u32() of one
\* value return the same number.
C7_RoundTrip ==
    /\ (call.op = "from_u32" /\ NatLe(call.arg, MAX)) =>
           call.out.kind = "ok" /\ as_u32(call.out.val) = call.arg
    /\ (call.op = "from_usize" /\ NatLe(call.arg, MAX)) =>
           call.out.kind = "ok" /\ as_usize(call.out.val) = call.arg
    /\ (call.op = "new" /\ NatLe(call.arg, MAX)) =>
           call.out.kind = "ok" /\ Idx_index(call.out.val) = call.arg
    /\ call.op \in {"index", "as_usize", "Idx::index", "usize::from"} =>
           call.out.val = as_u32(call.self)
    /\ call.op \in {"as_u32", "u32::from"} => call.out.val = index(call.self)

\* from_usize(0xFFFF_FF00) was called and reads back as 0xFFFF_FF00
C7_Witness ==
    /\ call.op = "from_usize"
    /\ call.arg = MAX
    /\ call.out.kind = "ok"
    /\ as_usize(call.out.val) = MAX

\* C8: for start.index() <= end.index(), steps_between(start, end) is
\* (d, Some(d)) with d = end.index() - start.index().
C8_StepsBetween ==
    (call.op = "steps_between" /\ NatLe(index(call.self), index(call.end))) =>
        LET d == NatSub(index(call.end), index(call.self))
        IN  call.out.val = <<d, Some(d)>>

\* steps_between(Index(1), Index(MAX)) was called: a distance of MAX - 1
C8_Witness ==
    /\ call.op = "steps_between"
    /\ call.self = CustomIndex(Small(1))
    /\ call.end = CustomIndex_MAX
    /\ call.out.val[1] = Hex32(\hFFFF, \hFEFF)

\* C9: increment_by(n) on a copy of i leaves the copy equal to i.plus(n) when
\* i.index() + n <= MAX, both panic otherwise, and the original is unchanged.
C9_PlusIncrementByAgree ==
    /\ call.op = "plus" => i = call.self
    /\ call.op = "increment_by" =>
        LET sum == NatAdd(index(call.self), call.arg)
            p == plus(call.self, call.arg)
        IN  IF NatLe(sum, MAX)
            THEN p = Ok(CustomIndex(sum)) /\ call.out = p /\ i = p.val
            ELSE p = Panic /\ call.out = Panic /\ i = call.self

\* C10: if forward_checked(a, n) is Some(b) then steps_between(a, b) is
\* (n, Some(n)) and backward_checked(b, n) is Some(a); if backward_checked(a, n)
\* is Some(b) then forward_checked(b, n) is Some(a).
C10_SteppingConsistent ==
    /\ (call.op = "forward_checked" /\ call.out.kind = "some") =>
           /\ steps_between(call.self, call.out.val) = <<call.arg, Some(call.arg)>>
           /\ backward_checked(call.out.val, call.arg) = Some(call.self)
    /\ (call.op = "backward_checked" /\ call.out.kind = "some") =>
           forward_checked(call.out.val, call.arg) = Some(call.self)

\* forward_checked(Index(1), MAX - 1) returned Some(Index(MAX))
C10_Witness ==
    /\ call.op = "forward_checked"
    /\ call.self = CustomIndex(Small(1))
    /\ call.arg = Hex32(\hFFFF, \hFEFF)
    /\ call.out = Some(CustomIndex_MAX)

====
